---- MODULE Spec2Model ----
(***************************************************************************)
(* Model of the external-links plugin (src/main.ts): the link cache kept   *)
(* in settings.linkCache, the link extractor, the path filter and the      *)
(* asynchronous handlers that keep the cache in step with the vault.       *)
(*                                                                         *)
(* Text (document content, paths, URLs, regular-expression sources) is a   *)
(* sequence of one-character strings, so that the regular expressions of   *)
(* the source are evaluated character by character.                        *)
(***************************************************************************)
EXTENDS Integers, Sequences, FiniteSets, TLC

(***************************************************************************)
(* Text helpers                                                            *)
(***************************************************************************)

\* The character at 1-based position i, "" past the end of the text.
At(s, i) == IF i >= 1 /\ i <= Len(s) THEN s[i] ELSE ""

\* \s of the regular expressions.
IsSpace(c) == c \in {" ", "\n", "\t"}

\* The class [^\s\\)] that continues a URL.
UrlChar(c) == c # "" /\ ~IsSpace(c) /\ c # "\\" /\ c # ")"

\* https?:\/\/ tried at position i: the position after the scheme, 0 when
\* it does not match there.
SchemeEnd(s, i) ==
    IF At(s, i) = "h" /\ At(s, i + 1) = "t" /\ At(s, i + 2) = "t" /\ At(s, i + 3) = "p"
    THEN LET j == IF At(s, i + 4) = "s" THEN i + 5 ELSE i + 4
         IN  IF At(s, j) = ":" /\ At(s, j + 1) = "/" /\ At(s, j + 2) = "/"
             THEN j + 3
             ELSE 0
    ELSE 0

\* [^\s\\)]+ is greedy: the first position at or after j that does not
\* continue the URL.
RECURSIVE RunEnd(_, _)
RunEnd(s, j) == IF UrlChar(At(s, j)) THEN RunEnd(s, j + 1) ELSE j

\* The first position at or after i holding character c, 0 when there is none.
RECURSIVE IndexOf(_, _, _)
IndexOf(s, c, i) ==
    IF i > Len(s) THEN 0
    ELSE IF s[i] = c THEN i
    ELSE IndexOf(s, c, i + 1)

NoMatch == [from |-> 0, to |-> 0, next |-> 0]

\* plainUrlRegex tried at position i. from..to is group 1, next is lastIndex
\* after the match.
PlainMatchAt(s, i) ==
    LET j == SchemeEnd(s, i)
        k == IF j = 0 THEN 0 ELSE RunEnd(s, j)
    IN  IF j # 0 /\ k > j
        THEN [from |-> i, to |-> k - 1, next |-> k]
        ELSE NoMatch

\* urlRegex tried at position i. [^\]]* runs to the first "]", which "("
\* must follow; the URL run must be followed by ")". from..to is group 2.
MdMatchAt(s, i) ==
    IF At(s, i) # "[" THEN NoMatch
    ELSE LET r == IndexOf(s, "]", i + 1)
         IN  IF r = 0 \/ At(s, r + 1) # "(" THEN NoMatch
             ELSE LET j == SchemeEnd(s, r + 2)
                      k == IF j = 0 THEN 0 ELSE RunEnd(s, j)
                  IN  IF j # 0 /\ k > j /\ At(s, k) = ")"
                      THEN [from |-> r + 2, to |-> k - 1, next |-> k + 1]
                      ELSE NoMatch

\* The loop `while ((match = urlRegex.exec(content)) !== null)` from
\* lastIndex i: the matches, leftmost first, none overlapping.
RECURSIVE MdMatches(_, _)
MdMatches(s, i) ==
    IF i > Len(s) THEN <<>>
    ELSE LET m == MdMatchAt(s, i)
         IN  IF m.next = 0 THEN MdMatches(s, i + 1)
             ELSE <<m>> \o MdMatches(s, m.next)

\* The same loop for plainUrlRegex.
RECURSIVE PlainMatches(_, _)
PlainMatches(s, i) ==
    IF i > Len(s) THEN <<>>
    ELSE LET m == PlainMatchAt(s, i)
         IN  IF m.next = 0 THEN PlainMatches(s, i + 1)
             ELSE <<m>> \o PlainMatches(s, m.next)

Includes(seq, x) == \E i \in 1..Len(seq) : seq[i] = x

\* links.push(match[2]) for every markdown match: no test for duplicates.
RECURSIVE PushAll(_, _, _)
PushAll(links, s, ms) ==
    IF ms = <<>> THEN links
    ELSE PushAll(Append(links, SubSeq(s, ms[1].from, ms[1].to)), s, Tail(ms))

\* if (!links.includes(match[1])) links.push(match[1]) for every plain match.
RECURSIVE PushNew(_, _, _)
PushNew(links, s, ms) ==
    IF ms = <<>> THEN links
    ELSE LET u == SubSeq(s, ms[1].from, ms[1].to)
         IN  PushNew(IF Includes(links, u) THEN links ELSE Append(links, u), s, Tail(ms))

\* [...new Set(seq)]: the first occurrence of each value, in order.
RECURSIVE Unique(_)
Unique(seq) ==
    IF seq = <<>> THEN <<>>
    ELSE LET r == Unique(SubSeq(seq, 1, Len(seq) - 1))
             x == seq[Len(seq)]
         IN  IF Includes(r, x) THEN r ELSE Append(r, x)

(***************************************************************************)
(* new RegExp(p) and p.test(s) for the patterns a user types. The modelled *)
(* dialect: an optional leading "^", then literal characters, "." for any  *)
(* character; a parenthesis that is not closed is a SyntaxError.           *)
(***************************************************************************)

RECURSIVE ParenDepth(_, _, _)
ParenDepth(p, i, d) ==
    IF i > Len(p) THEN d
    ELSE IF p[i] = "(" THEN ParenDepth(p, i + 1, d + 1)
    ELSE IF p[i] = ")" THEN (IF d = 0 THEN -1 ELSE ParenDepth(p, i + 1, d - 1))
    ELSE ParenDepth(p, i + 1, d)

\* Whether new RegExp(p) returns (TRUE) or throws a SyntaxError (FALSE).
Compiles(p) == ParenDepth(p, 1, 0) = 0

LitAt(lit, s, i) ==
    \A k \in 1..Len(lit) :
        /\ i + k - 1 <= Len(s)
        /\ (lit[k] = "." \/ lit[k] = s[i + k - 1])

\* new RegExp(p).test(s) for a pattern that compiles: an unanchored search.
RegexTest(p, s) ==
    IF At(p, 1) = "^"
    THEN LitAt(Tail(p), s, 1)
    ELSE \E i \in 1..(Len(s) + 1) : LitAt(p, s, i)

\* Mutant of SomeTest: every() in place of some().
SomeTest_Every(pats, link) == \A i \in 1..Len(pats) : RegexTest(pats[i], link)

\* excludePatterns.some((p) => p.test(link))
SomeTest(pats, link) == \E i \in 1..Len(pats) : RegexTest(pats[i], link)

\* links.filter((link) => !excludePatterns.some(...))
RECURSIVE Filter(_, _)
Filter(links, pats) ==
    IF links = <<>> THEN <<>>
    ELSE IF SomeTest(pats, links[1]) THEN Filter(Tail(links), pats)
    ELSE <<links[1]>> \o Filter(Tail(links), pats)

\* Mutant of collectLinks: the two loops in the other order.
collectLinks_PlainFirst(content) ==
    PushNew(PushNew(<<>>, content, PlainMatches(content, 1)), content,
            MdMatches(content, 1))

\* The array before filtering: markdown targets, then the plain URLs not
\* yet in it.
collectLinks(content) ==
    PushNew(PushAll(<<>>, content, MdMatches(content, 1)), content,
            PlainMatches(content, 1))

\* excludePatterns.map((p) => new RegExp(p)) throws at the first pattern
\* that does not compile.
AllCompile(pats) == \A i \in 1..Len(pats) : Compiles(pats[i])

\* extractExternalLinks(content) under settings.excludePatterns = pats.
\* ok = FALSE: the call threw.
extractExternalLinks(content, pats) ==
    IF ~AllCompile(pats)
    THEN [ok |-> FALSE, links |-> <<>>]
    ELSE [ok |-> TRUE, links |-> Unique(Filter(collectLinks(content), pats))]


(***************************************************************************)
(* The vault, the settings and the values the model draws from             *)
(***************************************************************************)

\* The most host events and settings edits one behaviour delivers.
MaxEvents == 2

HttpA == <<"h", "t", "t", "p", ":", "/", "/", "a">>
HttpsB == <<"h", "t", "t", "p", "s", ":", "/", "/", "b">>
MdLink(u) == <<"[", "x", "]", "(">> \o u \o <<")">>

\* Document contents, held in the vault by name: no link; one markdown
\* link; a bare URL followed by a markdown link.
Contents == {"DocNone", "DocA", "DocBA"}

\* The text of the content named d.
Text(d) ==
    CASE d = "DocNone" -> <<"t">>
      [] d = "DocA" -> MdLink(HttpA)
      [] d = "DocBA" -> HttpsB \o <<" ">> \o MdLink(HttpA)

PathA == <<"a">>
PathB == <<"b">>
PathPA == <<"p", "/", "a">>
Paths == {PathA, PathB, PathPA}

\* Values of settings.excludePathRegex: unset, ^p/, and one that does not
\* compile.
NoRegex == <<>>
RePrivate == <<"^", "p", "/">>
ReBad == <<"(">>
PathRegexes == {NoRegex, RePrivate, ReBad}

\* Values of settings.excludePatterns.
PatternLists == {<<>>, <<(<<"^">> \o HttpsB)>>, <<ReBad>>}

\* TFile objects: a rename changes the path of the object, and a handler that
\* holds the object across an await sees the new path.
Files == {1, 2}

EmptyCache == [x \in {} |-> <<>>]

\* What loadData() may return for linkCache: nothing, an entry of a document
\* that is gone, an entry that is out of date.
HydratedCaches ==
    {EmptyCache, [x \in {PathB} |-> <<HttpA>>], [x \in {PathA} |-> <<HttpsB>>]}

VARIABLES
    files,              \* the vault: TFile -> [exists, path, content]
    excludePathRegex,   \* settings.excludePathRegex
    excludePatterns,    \* settings.excludePatterns
    linkCache,          \* settings.linkCache: path -> links
    tasks,              \* async calls suspended at an await, oldest first
    phase,              \* "loaded", "ready" (layout ready seen), "unloaded"
    view,               \* the ExternalLinksView leaf and what it last drew
    persisted,          \* data.json: which call wrote it last ("none": not written)
    nEvents,            \* host events and settings edits delivered so far
    last,               \* history: the step just taken and the cache before it
    created,            \* history: the documents created since the plugin loaded
    scanned,            \* history: the settings the latest fullRefresh started under
    exContent,          \* extractor alone: the content handed to it
    exResult            \* extractor alone: what it returned

\* The variables of the specification that runs the extractor alone.
exVars == <<exContent, exResult>>

vars == <<files, excludePathRegex, excludePatterns, linkCache, tasks, phase,
          view, persisted, nEvents, last, created, scanned, exContent, exResult>>

(***************************************************************************)
(* Record<string, string[]> operations                                     *)
(***************************************************************************)

Has(c, k) == k \in DOMAIN c

\* c[k] = v
Put(c, k, v) == [x \in (DOMAIN c) \cup {k} |-> IF x = k THEN v ELSE c[x]]

\* delete c[k]
Remove(c, k) == [x \in (DOMAIN c) \ {k} |-> c[x]]

(***************************************************************************)
(* The handlers of ExternalLinksPlugin, as functions of the cache          *)
(***************************************************************************)

\* excludePathRegex && excludePathRegex.test(file.path), with re the source
\* of the compiled pattern (NoRegex: null).
isExcluded(re, path) == re # NoRegex /\ RegexTest(re, path)

\* new RegExp(settings.excludePathRegex) throws.
pathRegexThrows(re) == re # NoRegex /\ ~Compiles(re)

\* updateFileCache up to its await: "throw" (the pattern does not compile),
\* "excluded" (entry deleted, return) or "read" (cachedRead issued).
updateFileCacheStart(c, path, re) ==
    IF pathRegexThrows(re) THEN [status |-> "throw", cache |-> c]
    ELSE IF isExcluded(re, path) THEN [status |-> "excluded", cache |-> Remove(c, path)]
    ELSE [status |-> "read", cache |-> c]

\* Mutant of storeLinks: the new links are merged into the entry the cache
\* already holds.
storeLinks_Merge(c, path, links) ==
    IF Len(links) > 0
    THEN Put(c, path, IF Has(c, path) THEN Unique(c[path] \o links) ELSE links)
    ELSE Remove(c, path)

\* Mutant of storeLinks: only a path the cache already tracks is updated.
storeLinks_TrackedOnly(c, path, links) ==
    IF ~Has(c, path) THEN c
    ELSE IF Len(links) > 0 THEN Put(c, path, links) ELSE Remove(c, path)

\* Mutant of storeLinks: the list is stored whatever its length.
storeLinks_Always(c, path, links) == Put(c, path, links)

\* if (links.length > 0) cache[path] = links; else delete cache[path];
storeLinks(c, path, links) ==
    IF Len(links) > 0 THEN Put(c, path, links) ELSE Remove(c, path)

\* updateFileCache after cachedRead returned content.
updateFileCacheResume(c, path, content, pats) ==
    LET r == extractExternalLinks(content, pats)
    IN  IF r.ok
        THEN [status |-> "done", cache |-> storeLinks(c, path, r.links)]
        ELSE [status |-> "throw", cache |-> c]

\* file.name of a path: what follows its last "/".
RECURSIVE Basename(_)
Basename(path) ==
    IF Includes(path, "/") THEN Basename(Tail(path)) ELSE path

\* Mutant of removeFileFromCache: the key deleted is file.name, not file.path.
removeFileFromCache_ByName(c, path) == Remove(c, Basename(path))

\* delete this.settings.linkCache[file.path]
removeFileFromCache(c, path) == Remove(c, path)

\* Mutant of renameFileInCache: the entry is copied and the old key is kept.
renameFileInCache_KeepOld(c, oldPath, newPath) ==
    IF Has(c, oldPath)
    THEN [moved |-> TRUE, cache |-> Put(c, newPath, c[oldPath])]
    ELSE [moved |-> FALSE, cache |-> c]

\* Mutant of renameFileInCache: the move is not guarded by the presence of
\* the old key, so the new key is assigned nothing when there is none.
renameFileInCache_Unguarded(c, oldPath, newPath) ==
    IF Has(c, oldPath)
    THEN [moved |-> TRUE, cache |-> Remove(Put(c, newPath, c[oldPath]), oldPath)]
    ELSE [moved |-> TRUE, cache |-> Remove(c, newPath)]

\* if (cache[oldPath]) { cache[file.path] = cache[oldPath]; delete cache[oldPath]; }
\* moved: refreshView() is called.
renameFileInCache(c, oldPath, newPath) ==
    IF Has(c, oldPath)
    THEN [moved |-> TRUE, cache |-> Remove(Put(c, newPath, c[oldPath]), oldPath)]
    ELSE [moved |-> FALSE, cache |-> c]

\* The for loop of fullRefresh from the files in q, with re the pattern the
\* call compiled and cur the setting now, until a cachedRead is awaited
\* ("await": of file, rest in queue), the loop ends ("done") or
\* updateFileCache throws ("throw").
RECURSIVE fullRefreshLoop(_, _, _, _, _)
fullRefreshLoop(c, q, re, cur, fs) ==
    IF q = <<>> THEN [status |-> "done", cache |-> c, file |-> 0, queue |-> <<>>]
    ELSE LET f == Head(q)
             u == updateFileCacheStart(c, fs[f].path, cur)
         IN  IF isExcluded(re, fs[f].path)
             THEN fullRefreshLoop(c, Tail(q), re, cur, fs)
             ELSE IF u.status = "throw"
             THEN [status |-> "throw", cache |-> c, file |-> 0, queue |-> <<>>]
             ELSE IF u.status = "excluded"
             THEN fullRefreshLoop(u.cache, Tail(q), re, cur, fs)
             ELSE [status |-> "await", cache |-> c, file |-> f, queue |-> Tail(q)]

\* vault.getMarkdownFiles(): the documents that exist, in a fixed order.
RECURSIVE getMarkdownFiles(_, _)
getMarkdownFiles(fs, n) ==
    IF n \notin Files THEN <<>>
    ELSE IF fs[n].exists THEN <<n>> \o getMarkdownFiles(fs, n + 1)
    ELSE getMarkdownFiles(fs, n + 1)

\* Mutant of fullRefreshStart: the cache is not cleared.
fullRefreshStart_NoClear(re, fs) ==
    IF pathRegexThrows(re)
    THEN [status |-> "throw", cache |-> linkCache, file |-> 0, queue |-> <<>>]
    ELSE fullRefreshLoop(linkCache, getMarkdownFiles(fs, 1), re, re, fs)

\* fullRefresh up to its first await: the cache is cleared, the files are
\* listed, then the pattern is compiled, then the loop starts.
fullRefreshStart(re, fs) ==
    IF pathRegexThrows(re)
    THEN [status |-> "throw", cache |-> EmptyCache, file |-> 0, queue |-> <<>>]
    ELSE fullRefreshLoop(EmptyCache, getMarkdownFiles(fs, 1), re, re, fs)

\* refreshView(): every open leaf of the view type is handed the entries of
\* the cache.
refreshView(v, c) == IF v.open THEN [open |-> TRUE, drawn |-> TRUE, links |-> c] ELSE v


(***************************************************************************)
(* State machine                                                           *)
(***************************************************************************)

\* A call suspended at an await. kind "upd": updateFileCache(file) of a
\* changed event, awaiting cachedRead. kind "full": fullRefresh, awaiting
\* updateFileCache(file, false), itself awaiting cachedRead; queue holds the
\* files after it and re the pattern the call compiled. kind "cfg": a
\* settings onChange awaiting saveSettings().
Task(kind, file, queue, re) ==
    [kind |-> kind, file |-> file, queue |-> queue, re |-> re]

RemoveAt(seq, i) == SubSeq(seq, 1, i - 1) \o SubSeq(seq, i + 1, Len(seq))

\* A suspended call of ts holds TFile f.
HoldsIn(ts, f) == \E i \in 1..Len(ts) : ts[i].file = f \/ Includes(ts[i].queue, f)

PathInUse(p) == \E g \in Files : files[g].exists /\ files[g].path = p

\* A TFile that is gone and that no suspended call holds.
Gone == [exists |-> FALSE, path |-> PathB, content |-> "DocNone"]

\* The TFile objects of deleted documents that no suspended call of ts holds
\* any more are dropped.
Collect(fs, ts) ==
    [f \in Files |-> IF ~fs[f].exists /\ ~HoldsIn(ts, f) THEN Gone ELSE fs[f]]

\* The vault when the plugin loads: document 1 at path a, document 2 absent
\* or at path b.
InitialVaults ==
    {[f \in Files |-> IF f = 1 THEN [exists |-> TRUE, path |-> PathA, content |-> d] ELSE g] :
        d \in {"DocA", "DocBA"}, g \in {Gone, [exists |-> TRUE, path |-> PathB, content |-> "DocA"]}}

\* After onload: settings and cache as loadData() returned them, the layout
\* not yet ready. The host delivers events and the user edits settings once
\* the layout is ready.
Init ==
    /\ files \in InitialVaults
    /\ excludePathRegex \in {NoRegex, RePrivate}
    /\ excludePatterns = <<>>
    /\ linkCache \in HydratedCaches
    /\ tasks = <<>>
    /\ phase = "loaded"
    /\ view = [open |-> TRUE, drawn |-> FALSE, links |-> EmptyCache]
    /\ persisted = "none"
    /\ nEvents = 0
    /\ last = [op |-> "onload", res |-> "done", file |-> 0, path |-> <<>>, to |-> <<>>,
               before |-> linkCache]
    /\ created = {}
    /\ scanned = [re |-> NoRegex, pats |-> <<>>]
    /\ exContent = <<>>
    /\ exResult = [done |-> FALSE, ok |-> FALSE, links |-> <<>>]

\* The history of a step: the handler op that ran (for a vault change with
\* no handler, "vault"), how it ended, the TFile and the path it was about
\* (for a rename: from path to path), and the cache before the step; a
\* document counts as created from its creation to its deletion; a call of
\* fullRefresh (file 0: the call, not a resumption) starts under the settings
\* as they are.
Did(op, res, file, path, to) ==
    /\ last' = [op |-> op, res |-> res, file |-> file, path |-> path, to |-> to,
                before |-> linkCache]
    /\ created' = IF op = "vault" /\ res = "create" THEN created \cup {file}
                  ELSE IF op = "removeFileFromCache" THEN created \ {file}
                  ELSE created
    /\ scanned' = IF op = "fullRefresh" /\ file = 0
                  THEN [re |-> excludePathRegex, pats |-> excludePatterns]
                  ELSE scanned
    /\ UNCHANGED exVars

\* fullRefresh() is called; rest are the suspended calls that remain.
callFullRefresh(rest) ==
    LET r == fullRefreshStart(excludePathRegex, files)
    IN  /\ Did("fullRefresh", r.status, 0, <<>>, <<>>)
        /\ linkCache' = r.cache
        /\ tasks' = IF r.status = "await"
                    THEN Append(rest, Task("full", r.file, r.queue, excludePathRegex))
                    ELSE rest
        /\ view' = IF r.status = "done" THEN refreshView(view, r.cache) ELSE view

\* workspace.onLayoutReady(() => this.fullRefresh())
LayoutReady ==
    /\ phase = "loaded"
    /\ phase' = "ready"
    /\ callFullRefresh(tasks)
    /\ UNCHANGED <<files, excludePathRegex, excludePatterns, persisted, nEvents>>

\* metadataCache "changed" for document f: updateFileCache(file).
Changed(f) ==
    /\ phase = "ready"
    /\ nEvents < MaxEvents
    /\ files[f].exists
    /\ LET u == updateFileCacheStart(linkCache, files[f].path, excludePathRegex)
       IN  /\ Did("updateFileCache", u.status, f, files[f].path, <<>>)
           /\ linkCache' = u.cache
           /\ tasks' = IF u.status = "read"
                       THEN Append(tasks, Task("upd", f, <<>>, NoRegex))
                       ELSE tasks
           /\ view' = IF u.status = "excluded" THEN refreshView(view, u.cache) ELSE view
    /\ nEvents' = nEvents + 1
    /\ UNCHANGED <<files, excludePathRegex, excludePatterns, phase, persisted>>

\* cachedRead of suspended call i returns the content of its document; the
\* call resumes and runs to its next await or to its end.
ReadDone(i) ==
    /\ phase # "unloaded"
    /\ i \in 1..Len(tasks)
    /\ tasks[i].kind \in {"upd", "full"}
    /\ LET t == tasks[i]
           u == updateFileCacheResume(linkCache, files[t.file].path,
                                      Text(files[t.file].content), excludePatterns)
           r == fullRefreshLoop(u.cache, t.queue, t.re, excludePathRegex, files)
           op == IF t.kind = "upd" THEN "updateFileCache" ELSE "fullRefresh"
       IN  IF u.status = "throw"
           THEN /\ Did(op, "throw", t.file, files[t.file].path, <<>>)
                /\ tasks' = RemoveAt(tasks, i)
                /\ UNCHANGED <<linkCache, view>>
           ELSE IF t.kind = "upd"
           THEN /\ Did(op, "done", t.file, files[t.file].path, <<>>)
                /\ tasks' = RemoveAt(tasks, i)
                /\ linkCache' = u.cache
                /\ view' = refreshView(view, u.cache)
           ELSE /\ Did(op, r.status, t.file, files[t.file].path, <<>>)
                /\ linkCache' = r.cache
                /\ tasks' = IF r.status = "await"
                            THEN [tasks EXCEPT ![i] = Task("full", r.file, r.queue, t.re)]
                            ELSE RemoveAt(tasks, i)
                /\ view' = IF r.status = "done" THEN refreshView(view, r.cache) ELSE view
    /\ files' = Collect(files, tasks')
    /\ UNCHANGED <<excludePathRegex, excludePatterns, phase, persisted, nEvents>>

\* cachedRead of suspended call i rejects: the call (and a fullRefresh that
\* awaits it) ends there.
ReadFail(i) ==
    /\ phase # "unloaded"
    /\ i \in 1..Len(tasks)
    /\ tasks[i].kind \in {"upd", "full"}
    /\ Did(IF tasks[i].kind = "upd" THEN "updateFileCache" ELSE "fullRefresh",
           "readError", tasks[i].file, files[tasks[i].file].path, <<>>)
    /\ tasks' = RemoveAt(tasks, i)
    /\ files' = Collect(files, tasks')
    /\ UNCHANGED <<excludePathRegex, excludePatterns, linkCache, phase, view,
                   persisted, nEvents>>

\* The content of document f is edited in the vault.
Modify(f, d) ==
    /\ phase = "ready"
    /\ nEvents < MaxEvents
    /\ files[f].exists
    /\ files[f].content # d
    /\ files' = [files EXCEPT ![f].content = d]
    /\ Did("vault", "modify", f, files[f].path, <<>>)
    /\ nEvents' = nEvents + 1
    /\ UNCHANGED <<excludePathRegex, excludePatterns, linkCache, tasks, phase, view,
                   persisted>>

\* A document is created in the vault (no handler is registered for it).
Create(f, p, d) ==
    /\ phase = "ready"
    /\ nEvents < MaxEvents
    /\ ~files[f].exists
    /\ ~HoldsIn(tasks, f)
    /\ ~PathInUse(p)
    /\ files' = [files EXCEPT ![f] = [exists |-> TRUE, path |-> p, content |-> d]]
    /\ Did("vault", "create", f, p, <<>>)
    /\ nEvents' = nEvents + 1
    /\ UNCHANGED <<excludePathRegex, excludePatterns, linkCache, tasks, phase, view,
                   persisted>>

\* vault "delete" of document f: removeFileFromCache(file).
Delete(f) ==
    /\ phase = "ready"
    /\ nEvents < MaxEvents
    /\ files[f].exists
    /\ files' = Collect([files EXCEPT ![f].exists = FALSE], tasks)
    /\ Did("removeFileFromCache", "done", f, files[f].path, <<>>)
    /\ linkCache' = removeFileFromCache(linkCache, files[f].path)
    /\ view' = refreshView(view, linkCache')
    /\ nEvents' = nEvents + 1
    /\ UNCHANGED <<excludePathRegex, excludePatterns, tasks, phase, persisted>>

\* vault "rename" of document f to path p: renameFileInCache(file, oldPath).
Rename(f, p) ==
    /\ phase = "ready"
    /\ nEvents < MaxEvents
    /\ files[f].exists
    /\ ~PathInUse(p)
    /\ files' = [files EXCEPT ![f].path = p]
    /\ LET r == renameFileInCache(linkCache, files[f].path, p)
       IN  /\ Did("renameFileInCache", IF r.moved THEN "moved" ELSE "noop",
                  f, files[f].path, p)
           /\ linkCache' = r.cache
           /\ view' = IF r.moved THEN refreshView(view, r.cache) ELSE view
    /\ nEvents' = nEvents + 1
    /\ UNCHANGED <<excludePathRegex, excludePatterns, tasks, phase, persisted>>

\* The "Exclude path regex" text is edited: the setting is assigned and
\* saveSettings() is awaited.
ChangePathRegex(v) ==
    /\ phase = "ready"
    /\ nEvents < MaxEvents
    /\ v # excludePathRegex
    /\ excludePathRegex' = v
    /\ Did("onChange", "save", 0, <<>>, <<>>)
    /\ tasks' = Append(tasks, Task("cfg", 0, <<>>, NoRegex))
    /\ nEvents' = nEvents + 1
    /\ UNCHANGED <<files, excludePatterns, linkCache, phase, view, persisted>>

\* The "Exclude patterns" text is edited.
ChangePatterns(v) ==
    /\ phase = "ready"
    /\ nEvents < MaxEvents
    /\ v # excludePatterns
    /\ excludePatterns' = v
    /\ Did("onChange", "save", 0, <<>>, <<>>)
    /\ tasks' = Append(tasks, Task("cfg", 0, <<>>, NoRegex))
    /\ nEvents' = nEvents + 1
    /\ UNCHANGED <<files, excludePathRegex, linkCache, phase, view, persisted>>

\* saveSettings() of suspended onChange i returns: data.json is written and
\* fullRefresh() is called.
SaveDone(i) ==
    /\ phase # "unloaded"
    /\ i \in 1..Len(tasks)
    /\ tasks[i].kind = "cfg"
    /\ persisted' = "onChange"
    /\ callFullRefresh(RemoveAt(tasks, i))
    /\ UNCHANGED <<files, excludePathRegex, excludePatterns, phase, nEvents>>

\* saveSettings() of suspended onChange i rejects: the handler ends before
\* it calls fullRefresh().
SaveFail(i) ==
    /\ phase # "unloaded"
    /\ i \in 1..Len(tasks)
    /\ tasks[i].kind = "cfg"
    /\ Did("onChange", "saveError", 0, <<>>, <<>>)
    /\ tasks' = RemoveAt(tasks, i)
    /\ UNCHANGED <<files, excludePathRegex, excludePatterns, linkCache, phase, view,
                   persisted, nEvents>>

\* onunload(): saveSettings(); the registered events and the view go with
\* the plugin. The model follows the plugin up to here: what a call still
\* suspended does to the settings object afterwards is not saved or shown.
Unload ==
    /\ phase # "unloaded"
    /\ phase' = "unloaded"
    /\ persisted' = "onunload"
    /\ Did("onunload", "done", 0, <<>>, <<>>)
    /\ view' = [view EXCEPT !.open = FALSE]
    /\ UNCHANGED <<files, excludePathRegex, excludePatterns, linkCache, tasks, nEvents>>

Next ==
    \/ LayoutReady
    \/ \E f \in Files : Changed(f)
    \/ \E i \in 1..(MaxEvents + 1) : ReadDone(i)
    \/ \E i \in 1..(MaxEvents + 1) : ReadFail(i)
    \/ \E f \in Files, d \in Contents : Modify(f, d)
    \/ \E f \in Files, p \in Paths, d \in Contents : Create(f, p, d)
    \/ \E f \in Files : Delete(f)
    \/ \E f \in Files, p \in Paths : Rename(f, p)
    \/ \E v \in PathRegexes : ChangePathRegex(v)
    \/ \E v \in PatternLists : ChangePatterns(v)
    \/ \E i \in 1..(MaxEvents + 1) : SaveDone(i)
    \/ \E i \in 1..(MaxEvents + 1) : SaveFail(i)
    \/ Unload

Spec == Init /\ [][Next]_vars


(***************************************************************************)
(* The extractor alone: extractExternalLinks applied once to a content and *)
(* a pattern list drawn from bounded sets.                                 *)
(***************************************************************************)

\* The most pieces a drawn content is made of.
MaxTokens == 3

\* The pieces: markdown links, bare URLs followed by a space, a bare URL
\* that runs into what follows it, a letter.
Tokens ==
    {MdLink(HttpA), MdLink(HttpsB), HttpA \o <<" ">>, HttpsB \o <<" ">>, HttpA, <<"t">>}

RECURSIVE TextsOf(_)
TextsOf(n) == IF n = 0 THEN {<<>>} ELSE {t \o d : t \in Tokens, d \in TextsOf(n - 1)}

Texts == UNION {TextsOf(n) : n \in 0..MaxTokens}

\* Pattern lists for the extractor alone: none, one anchored, one
\* unanchored, two, one that does not compile.
ExtractPatternLists ==
    {<<>>, <<(<<"^">> \o HttpsB)>>, <<(<<"/">> \o <<"a">>)>>,
     <<(<<"^">> \o HttpsB), <<"a", "[">>>>, <<ReBad>>}

InitExtract ==
    /\ exContent \in Texts
    /\ excludePatterns \in ExtractPatternLists
    /\ exResult = [done |-> FALSE, ok |-> FALSE, links |-> <<>>]
    /\ files = [f \in Files |-> Gone]
    /\ excludePathRegex = NoRegex
    /\ linkCache = EmptyCache
    /\ tasks = <<>>
    /\ phase = "loaded"
    /\ view = [open |-> FALSE, drawn |-> FALSE, links |-> EmptyCache]
    /\ persisted = "none"
    /\ nEvents = 0
    /\ last = [op |-> "onload", res |-> "done", file |-> 0, path |-> <<>>, to |-> <<>>,
               before |-> EmptyCache]
    /\ created = {}
    /\ scanned = [re |-> NoRegex, pats |-> <<>>]

\* const links = this.extractExternalLinks(content)
Extract ==
    /\ ~exResult.done
    /\ LET r == extractExternalLinks(exContent, excludePatterns)
       IN  exResult' = [done |-> TRUE, ok |-> r.ok, links |-> r.links]
    /\ UNCHANGED <<files, excludePathRegex, excludePatterns, linkCache, tasks, phase,
                   view, persisted, nEvents, last, created, scanned, exContent>>

SpecExtract == InitExtract /\ [][Extract]_vars

(***************************************************************************)
(* The startup rescan alone: the plugin loads over a vault, settings and   *)
(* a saved cache drawn from bounded sets, and fullRefresh runs with no     *)
(* event delivered and no setting edited.                                  *)
(***************************************************************************)

\* A document of the vault: absent, or at a path with a content.
RescanDocs ==
    {Gone} \cup {[exists |-> TRUE, path |-> p, content |-> d] : p \in Paths, d \in Contents}

\* The vaults: no two documents at one path.
RescanVaults ==
    {fs \in [Files -> RescanDocs] :
        \A f, g \in Files : (f # g /\ fs[f].exists /\ fs[g].exists) => fs[f].path # fs[g].path}

\* After onload, as Init, over every vault and every value of the settings.
InitRescan ==
    /\ files \in RescanVaults
    /\ excludePathRegex \in PathRegexes
    /\ excludePatterns \in PatternLists
    /\ linkCache \in HydratedCaches
    /\ tasks = <<>>
    /\ phase = "loaded"
    /\ view = [open |-> TRUE, drawn |-> FALSE, links |-> EmptyCache]
    /\ persisted = "none"
    /\ nEvents = 0
    /\ last = [op |-> "onload", res |-> "done", file |-> 0, path |-> <<>>, to |-> <<>>,
               before |-> linkCache]
    /\ created = {}
    /\ scanned = [re |-> NoRegex, pats |-> <<>>]
    /\ exContent = <<>>
    /\ exResult = [done |-> FALSE, ok |-> FALSE, links |-> <<>>]

NextRescan ==
    \/ LayoutReady
    \/ \E i \in 1..(MaxEvents + 1) : ReadDone(i)
    \/ \E i \in 1..(MaxEvents + 1) : ReadFail(i)

SpecRescan == InitRescan /\ [][NextRescan]_vars

(***************************************************************************)
(* Settings edits over a vault that does not change: the plugin loads as   *)
(* for the rescan alone, the user edits the two settings, the host fires   *)
(* "changed", and every read and every save completes.                     *)
(***************************************************************************)

InitOverlap ==
    /\ files \in RescanVaults
    /\ excludePathRegex \in {NoRegex, RePrivate}
    /\ excludePatterns = <<>>
    /\ linkCache \in HydratedCaches
    /\ tasks = <<>>
    /\ phase = "loaded"
    /\ view = [open |-> TRUE, drawn |-> FALSE, links |-> EmptyCache]
    /\ persisted = "none"
    /\ nEvents = 0
    /\ last = [op |-> "onload", res |-> "done", file |-> 0, path |-> <<>>, to |-> <<>>,
               before |-> linkCache]
    /\ created = {}
    /\ scanned = [re |-> NoRegex, pats |-> <<>>]
    /\ exContent = <<>>
    /\ exResult = [done |-> FALSE, ok |-> FALSE, links |-> <<>>]

NextOverlap ==
    \/ LayoutReady
    \/ \E f \in Files : Changed(f)
    \/ \E i \in 1..(MaxEvents + 1) : ReadDone(i)
    \/ \E v \in PathRegexes : ChangePathRegex(v)
    \/ \E v \in PatternLists : ChangePatterns(v)
    \/ \E i \in 1..(MaxEvents + 1) : SaveDone(i)

SpecOverlap == InitOverlap /\ [][NextOverlap]_vars

(***************************************************************************)
(* Properties                                                              *)
(***************************************************************************)

\* No fullRefresh, updateFileCache or settings onChange is suspended.
Quiescent == tasks = <<>>

InFlight(kinds) == \E i \in 1..Len(tasks) : tasks[i].kind \in kinds

\* C1. Path exclusion: once the layout is ready and no operation is in
\* flight, no key of the link cache matches the configured exclude-path
\* pattern, a rename onto a matching path included.
C1_PathExclusion ==
    (phase = "ready" /\ Quiescent /\ ~pathRegexThrows(excludePathRegex))
        => \A k \in DOMAIN linkCache : ~isExcluded(excludePathRegex, k)

\* C2. Existence: from the startup rescan on, every key of the link cache is
\* the path of a document that exists in the vault.
C2_Existence ==
    phase = "ready" => \A k \in DOMAIN linkCache : PathInUse(k)

\* C3. A configuration error leaves the cache untouched: when a fullRefresh
\* or an updateFileCache has thrown on a malformed pattern, with no other
\* operation in flight, the link cache is as it was before the step that
\* threw.
C3_ConfigErrorKeepsCache ==
    (last.op \in {"fullRefresh", "updateFileCache"} /\ last.res = "throw" /\ Quiescent)
        => linkCache = last.before

\* C4. A rescan survives a read failure: after cachedRead rejected for one
\* document of a fullRefresh, the rescan is either still in flight for the
\* documents that remain or has ended with a re-render of the cache.
C4_RescanSurvivesReadError ==
    (last.op = "fullRefresh" /\ last.res = "readError")
        => \/ InFlight({"full"})
           \/ (view.drawn /\ view.links = linkCache)

\* A step in which the handler of a host event or a fullRefresh call starts.
HandlerStarts ==
    \/ LayoutReady
    \/ \E f \in Files : Changed(f) \/ Delete(f)
    \/ \E f \in Files, p \in Paths : Rename(f, p)
    \/ \E i \in 1..Len(tasks) : SaveDone(i)

\* A step that resumes the one suspended fullRefresh.
RescanResumes == \E i \in 1..Len(tasks) : tasks[i].kind = "full" /\ (ReadDone(i) \/ ReadFail(i))

\* C5. Exclusive access: while a fullRefresh is suspended, no step but its
\* own resumption changes the link cache, and while a fullRefresh or an
\* updateFileCache is suspended no other handler starts.
C5_ExclusiveAccess ==
    [][/\ (InFlight({"full"}) /\ ~RescanResumes) => linkCache' = linkCache
       /\ InFlight({"full", "upd"}) => ~HandlerStarts]_vars


\* What extractExternalLinks returns for the content of document f now.
Extraction(f) == extractExternalLinks(Text(files[f].content), excludePatterns).links

\* An updateFileCache of a changed event has just completed for a document
\* that exists.
UpdateCompleted ==
    /\ last.op = "updateFileCache"
    /\ last.res = "done"
    /\ files[last.file].exists

\* C6. updateDocument(p) determines p's entry from the current content only:
\* when an update of a document has completed, the cache and the list the
\* open view shows hold under the document's path exactly the extraction of
\* its content if that is non-empty and no entry if it is empty, whatever
\* the cache held for the path before.
C6_UpdateReflectsContent ==
    UpdateCompleted =>
        LET p == files[last.file].path
            e == Extraction(last.file)
        IN  /\ p = last.path
            /\ IF e # <<>>
               THEN Has(linkCache, p) /\ linkCache[p] = e
               ELSE ~Has(linkCache, p)
            /\ view.open => view.links = linkCache

\* Witness of C6: an update has replaced an entry by a different, non-empty
\* list.
C6_Witness ==
    /\ UpdateCompleted
    /\ Has(last.before, last.path)
    /\ Has(linkCache, last.path)
    /\ last.before[last.path] # linkCache[last.path]

\* C9. renameDocument(a, b) moves the entry unchanged: after a rename of a
\* path that had an entry, the new path holds the list the old path held
\* before the call and the old path has no entry.
C9_RenameMovesEntry ==
    (last.op = "renameFileInCache" /\ Has(last.before, last.path))
        => /\ last.res = "moved"
           /\ Has(linkCache, last.to)
           /\ linkCache[last.to] = last.before[last.path]
           /\ ~Has(linkCache, last.path)

\* Witness of C9: an entry was moved to a document whose content now
\* extracts to something else, so the list was carried over, not re-read.
C9_Witness ==
    /\ last.op = "renameFileInCache"
    /\ last.res = "moved"
    /\ files[last.file].exists
    /\ Has(linkCache, last.to)
    /\ linkCache[last.to] # Extraction(last.file)


Range(seq) == {seq[i] : i \in 1..Len(seq)}

Min(S) == CHOOSE x \in S : \A y \in S : x <= y

NoDuplicates(seq) == \A i, j \in 1..Len(seq) : seq[i] = seq[j] => i = j

\* The places where content s holds URL u as the target of a markdown link,
\* and as a bare URL.
MdPlaces(s, u) == {m.from : m \in {x \in Range(MdMatches(s, 1)) : SubSeq(s, x.from, x.to) = u}}
PlainPlaces(s, u) == {m.from : m \in {x \in Range(PlainMatches(s, 1)) : SubSeq(s, x.from, x.to) = u}}

\* The URLs content s holds, in either form.
Candidates(s) ==
    {SubSeq(s, m.from, m.to) : m \in Range(MdMatches(s, 1)) \cup Range(PlainMatches(s, 1))}

\* URL u is matched by a pattern of the list.
Matched(pats, u) == \E i \in 1..Len(pats) : RegexTest(pats[i], u)

\* The extractor returned, without a configuration error.
Extracted == exResult.done /\ exResult.ok

\* The place of the first occurrence of u in s, in whichever form.
FirstPlace(s, u) == Min(MdPlaces(s, u) \cup PlainPlaces(s, u))

\* The content is made of markdown links and bare URLs that end where the
\* author meant them to: no URL of it runs into the text after it.
Delimited(s) == Candidates(s) \subseteq {HttpA, HttpsB}

\* C7, as claimed. For a content made of markdown links and bare URLs, the
\* result has no duplicates and lists the URLs in the order of their first
\* occurrence in the document, whichever form that occurrence has.
C7_FirstOccurrenceOrder ==
    (Extracted /\ Delimited(exContent)) =>
        /\ NoDuplicates(exResult.links)
        /\ \A i, j \in 1..Len(exResult.links) :
              i < j => FirstPlace(exContent, exResult.links[i])
                          < FirstPlace(exContent, exResult.links[j])

\* The rank of URL u of content s: a markdown target ranks by its first
\* place as a target, before every URL that occurs only bare, which ranks by
\* its first place.
Rank(s, u) ==
    IF MdPlaces(s, u) # {} THEN Min(MdPlaces(s, u))
    ELSE Len(s) + Min(PlainPlaces(s, u))

\* C7, amended. The result lists each distinct URL that no pattern matches
\* exactly once; the URLs that occur as markdown link targets come first, in
\* the order of their first occurrence as a target, then the URLs that occur
\* only bare, in the order of their first occurrence.
C7_TargetsThenBareOrder ==
    Extracted =>
        /\ NoDuplicates(exResult.links)
        /\ Range(exResult.links) = {u \in Candidates(exContent) : ~Matched(excludePatterns, u)}
        /\ \A i, j \in 1..Len(exResult.links) :
              i < j => Rank(exContent, exResult.links[i]) < Rank(exContent, exResult.links[j])

\* Witness of C7: a result of two URLs where the first occurs in the content
\* after the second, the first as a markdown target that also occurs twice.
C7_Witness ==
    /\ Extracted
    /\ Delimited(exContent)
    /\ Len(exResult.links) = 2
    /\ FirstPlace(exContent, exResult.links[1]) > FirstPlace(exContent, exResult.links[2])
    /\ Cardinality(MdPlaces(exContent, exResult.links[1])
                   \cup PlainPlaces(exContent, exResult.links[1])) >= 2

C11_RemoveIdempotent ==
    last.op = "removeFileFromCache" =>
        /\ last.res = "done"
        /\ ~Has(linkCache, last.path)
        /\ ~Has(last.before, last.path) => linkCache = last.before

\* Witness of C11: the handler ran for a path with no entry while the cache
\* held the entry of another document.
C11_Witness ==
    /\ last.op = "removeFileFromCache"
    /\ ~Has(last.before, last.path)
    /\ last.before # EmptyCache


\* C12. Persisted storage is written at shutdown only: as long as the plugin
\* has not been unloaded, data.json has not been written by any operation.
C12_SavedAtShutdownOnly ==
    phase # "unloaded" => persisted = "none"


C14_DisplayFollowsCache ==
    (phase = "ready" /\ Quiescent /\ view.open) => view.links = linkCache


\* C15. Every configuration edit triggers a full rescan: once the layout is
\* ready, whenever no settings handler is still awaiting its save, the
\* latest fullRefresh was started under the exclude-path pattern and the
\* exclude-URL pattern list as they are now.
C15_EditTriggersRescan ==
    (phase = "ready" /\ ~InFlight({"cfg"}))
        => scanned = [re |-> excludePathRegex, pats |-> excludePatterns]


\* An updateFileCache, called by a "changed" event or by fullRefresh, has
\* just read and evaluated the content of a document that exists.
Evaluated ==
    /\ last.op \in {"updateFileCache", "fullRefresh"}
    /\ last.res \in {"done", "await"}
    /\ last.file \in Files
    /\ files[last.file].exists

\* C16. No empty entry is ever stored: no entry of the link cache holds an
\* empty list, and a document whose content was just evaluated and extracts
\* to nothing has no key.
C16_NoEmptyEntry ==
    /\ \A k \in DOMAIN linkCache : linkCache[k] # <<>>
    /\ (Evaluated /\ Extraction(last.file) = <<>>)
           => ~Has(linkCache, files[last.file].path)

\* Witness of C16: a document that had an entry was evaluated with an empty
\* extraction, and its entry is gone.
C16_Witness ==
    /\ Evaluated
    /\ Extraction(last.file) = <<>>
    /\ Has(last.before, last.path)
    /\ last.path = files[last.file].path
    /\ ~Has(linkCache, last.path)


\* The documents of the vault that a rescan under the settings as they are
\* keeps: they exist, their path does not match the exclude-path pattern and
\* their content extracts to at least one link.
Eligible ==
    {f \in Files : /\ files[f].exists
                   /\ ~isExcluded(excludePathRegex, files[f].path)
                   /\ Extraction(f) # <<>>}

\* The link cache holds exactly the extraction of every eligible document
\* under the document's path.
CacheIsStore ==
    /\ DOMAIN linkCache = {files[f].path : f \in Eligible}
    /\ \A f \in Eligible : linkCache[files[f].path] = Extraction(f)

\* C17. A completed fullRescan rebuilds the cache from the store alone: when
\* the rescan after load has run to completion with nothing else happening,
\* the cache has a key for exactly the documents that exist, are not
\* path-excluded and extract to a non-empty list, each with its extraction,
\* whatever the saved cache held, and the open view shows it.
C17_RescanRebuildsFromStore ==
    (last.op = "fullRefresh" /\ last.res = "done")
        => /\ CacheIsStore
           /\ view.links = linkCache

\* Witness of C17: a rescan has completed over a vault with a document that
\* holds a link and is excluded by its path, and another that is kept.
C17_Witness ==
    /\ last.op = "fullRefresh"
    /\ last.res = "done"
    /\ \E f \in Files : /\ files[f].exists
                        /\ isExcluded(excludePathRegex, files[f].path)
                        /\ Extraction(f) # <<>>
    /\ linkCache # EmptyCache

\* The step just taken left the entry of every path outside paths as it was.
Local(paths) ==
    \A k \in (DOMAIN last.before \cup DOMAIN linkCache) \ paths :
        /\ Has(last.before, k)
        /\ Has(linkCache, k)
        /\ linkCache[k] = last.before[k]

\* C18. Incremental operations are local: a step of updateFileCache for a
\* document and the delete handler leave the entry of every path but the
\* document's as it was; the rename handler leaves the entry of every path
\* but the old and the new one as it was, and the whole cache, an entry
\* under the new path included, when the old path had no entry.
C18_IncrementalLocal ==
    /\ last.op \in {"updateFileCache", "removeFileFromCache"} => Local({last.path})
    /\ last.op = "renameFileInCache" =>
          /\ Local({last.path, last.to})
          /\ ~Has(last.before, last.path) => linkCache = last.before

\* Witness of C18: a document with no entry was renamed onto a path that
\* has one.
C18_Witness ==
    /\ last.op = "renameFileInCache"
    /\ ~Has(last.before, last.path)
    /\ Has(last.before, last.to)
    /\ Has(linkCache, last.to)


\* C19. Overlapping rescans converge to the final configuration: over a
\* vault that does not change, with every read and save completing, whenever
\* no operation is in flight and the settings compile, the cache is what one
\* fullRefresh under the settings as they are would produce; no write
\* resumed by an earlier operation has left an entry for a path the final
\* exclude-path pattern matches.
C19_OverlapConverges ==
    (/\ phase = "ready"
     /\ Quiescent
     /\ ~pathRegexThrows(excludePathRegex)
     /\ AllCompile(excludePatterns))
        => CacheIsStore


\* C20. A delete is not undone by an in-flight update: when an
\* updateFileCache, of a "changed" event or of fullRefresh, resumes from its
\* read for a document that was deleted while it waited, the cache has no
\* entry for the document's path afterwards.
C20_DeleteNotUndone ==
    (/\ last.op \in {"updateFileCache", "fullRefresh"}
     /\ last.res \in {"done", "await"}
     /\ last.file \in Files
     /\ ~files[last.file].exists)
        => ~Has(linkCache, last.path)

====
